---------------------------- MODULE Spec2Model ----------------------------
(***************************************************************************)
(* A model of the reduced GOST collision attack (nevenoomo/GOST_collision): *)
(* the bit packing helpers, the Magma cipher, the GOST compression          *)
(* function and the meet-in-the-middle attacker.                            *)
(*                                                                          *)
(* Representation.  A "byte" of the reduced cipher is a symbol in 0..3.     *)
(* An unsigned integer of 2n bits (u8, u16, u32, u64) is the sequence of    *)
(* its n base-4 digits, least significant first, so that digit i (0-based)  *)
(* is bits 2i..2i+2 of the integer.  Every shift of the code is by an even  *)
(* amount or is done on a u8 (modelled as a number in 0..255), so the       *)
(* digit form loses nothing.                                                *)
(***************************************************************************)
EXTENDS Integers, Sequences, FiniteSets, TLC

Symbols == 0..3

\* ---------------------------------------------------------------------------
\* Bitwise operations on symbols and on digit sequences
\* ---------------------------------------------------------------------------

XorSym(a, b) == (((a % 2) + (b % 2)) % 2) + 2 * (((a \div 2) + (b \div 2)) % 2)

OrSym(a, b) ==
  (IF a % 2 = 1 \/ b % 2 = 1 THEN 1 ELSE 0)
  + 2 * (IF a \div 2 = 1 \/ b \div 2 = 1 THEN 1 ELSE 0)

\* TLC keeps a function constructor unevaluated until it is applied; Strict
\* evaluates it to a tuple at once, so that nested rounds do not pile up.
Strict(f) == SubSeq(f, 1, Len(f))

Zeros(n) == Strict([j \in 1..n |-> 0])

\* digits of the number x < 4^15, n of them (x taken modulo 4^n)
Digits(x, n) ==
  Strict([j \in 1..n |-> IF j <= 15 THEN (x \div (4 ^ (j - 1))) % 4 ELSE 0])

\* the number a digit sequence stands for (only used on at most 8 digits)
RECURSIVE Num(_)
Num(s) == IF Len(s) = 0 THEN 0 ELSE s[1] + 4 * Num(Tail(s))

\* src/gost_hash.rs xor and src/magma.rs xor: element-wise XOR of two slices
xor(x, y) == Strict([j \in 1..Len(x) |-> XorSym(x[j], y[j])])

OrDigits(x, y) == Strict([j \in 1..Len(x) |-> OrSym(x[j], y[j])])

\* ---------------------------------------------------------------------------
\* utils::pack / utils::unpack (src/gost_collision.rs)
\* ---------------------------------------------------------------------------

Builds == {"debug", "release"}

\* `*e << offset` on a u8.  The shift amount reaches the width of u8 at the
\* fifth symbol: a build with overflow checks panics there (-1 here), a build
\* without them masks the amount to its low three bits.  The bits shifted
\* past bit 7 are lost in both.
ShlU8(e, offset, build) ==
  IF offset >= 8 /\ build = "debug" THEN -1
  ELSE (e * (2 ^ (offset % 8))) % 256

Panic == [ok |-> FALSE, val |-> <<>>]

\* the loop of pack: tmp |= (*e << offset).try_into(); offset += 2
RECURSIVE packLoop(_, _, _, _, _)
packLoop(x, j, offset, tmp, build) ==
  IF j > Len(x) THEN [ok |-> TRUE, val |-> tmp]
  ELSE LET sh  == ShlU8(x[j], offset, build)
           acc == OrDigits(tmp, Digits(sh, Len(tmp)))
       IN IF sh < 0 \/ Len(acc) # Len(tmp) THEN Panic
          ELSE packLoop(x, j + 1, offset + 2, acc, build)

\* pack::<T>(x) for T of width digits (4 for u8, 8 for u16, 16 for u32,
\* 32 for u64): [ok, val], ok = FALSE when the call panics
pack(x, width, build) == packLoop(x, 1, 0, Zeros(width), build)

\* unpack(x, y): elem i of the n-element slice is (y >> 2i) & 0b11, y widened to u64
unpack(n, y) == Strict([j \in 1..n |-> IF j <= Len(y) THEN y[j] ELSE 0])

\* ---------------------------------------------------------------------------
\* Magma (src/magma.rs)
\* ---------------------------------------------------------------------------

SBOX == <<1, 3, 0, 2>>

RECURSIVE sumLoop(_, _, _, _)
sumLoop(x, y, j, c) ==
  IF j > Len(x) THEN <<>>
  ELSE LET tmp == x[j] + y[j] + c
       IN <<tmp % 4>> \o sumLoop(x, y, j + 1, tmp \div 4)

sum_mod(x, y) == sumLoop(x, y, 1, 0)

s_box(x) == Strict([j \in 1..4 |-> SBOX[x[j] + 1]])

half_blk_le(x) == x[1] + 4 * x[2] + 16 * x[3] + 64 * x[4]

le_to_half_blk(n) == Strict([j \in 1..4 |-> (n \div (4 ^ (j - 1))) % 4])

\* u8::rotate_left(r): the rotation amount is taken modulo 8
RotlU8(n, r) == ((n * (2 ^ (r % 8))) % 256) + (n \div (2 ^ (8 - (r % 8))))

rot11(x) == le_to_half_blk(RotlU8(half_blk_le(x), 11))

\* Magma::round: the new value of *left; *right is not written
round(left, right, key) == xor(left, rot11(s_box(sum_mod(right, key))))

KeySlice(key, from, to) == SubSeq(key, from + 1, to)

\* next with the first arm one round short (1..=23, 24..=32)
next_arm_short(key, round_num) ==
  IF round_num >= 1 /\ round_num <= 23
    THEN KeySlice(key, 4 * ((round_num - 1) % 8), 4 * (((round_num - 1) % 8) + 1))
  ELSE IF round_num >= 24 /\ round_num <= 32
    THEN KeySlice(key, 4 * (7 - ((round_num - 1) % 8)), 4 * (8 - ((round_num - 1) % 8)))
  ELSE <<>>

\* <MagmaKeyScheduler as Iterator>::next for the value of round_num after the
\* increment; <<>> stands for None
next(key, round_num) ==
  IF round_num >= 1 /\ round_num <= 24
    THEN KeySlice(key, 4 * ((round_num - 1) % 8), 4 * (((round_num - 1) % 8) + 1))
  ELSE IF round_num >= 25 /\ round_num <= 32
    THEN KeySlice(key, 4 * (7 - ((round_num - 1) % 8)), 4 * (8 - ((round_num - 1) % 8)))
  ELSE <<>>

\* next_back with the arms of next: the reversed scheduler repeats the forward order
next_back_as_next(key, round_num) ==
  IF round_num >= 1 /\ round_num <= 24
    THEN KeySlice(key, 4 * ((round_num - 1) % 8), 4 * (((round_num - 1) % 8) + 1))
  ELSE IF round_num >= 25 /\ round_num <= 32
    THEN KeySlice(key, 4 * (7 - ((round_num - 1) % 8)), 4 * (8 - ((round_num - 1) % 8)))
  ELSE <<>>

\* <MagmaKeyScheduler as DoubleEndedIterator>::next_back
next_back(key, round_num) ==
  IF round_num >= 1 /\ round_num <= 8
    THEN KeySlice(key, 4 * ((round_num - 1) % 8), 4 * (((round_num - 1) % 8) + 1))
  ELSE IF round_num >= 9 /\ round_num <= 32
    THEN KeySlice(key, 4 * (7 - ((round_num - 1) % 8)), 4 * (8 - ((round_num - 1) % 8)))
  ELSE <<>>

\* The `for round_key in key_scheduler` loop of encrypt_block (rev = FALSE)
\* and decrypt_block (rev = TRUE): l and r are the two references, swapped
\* after every round; the loop ends at the scheduler's first None.
RECURSIVE feistelLoop(_, _, _, _, _)
feistelLoop(key, rev, round_num, l, r) ==
  LET rk == IF rev THEN next_back(key, round_num + 1) ELSE next(key, round_num + 1)
      nl == round(l, r, rk)
  IN IF rk = <<>> THEN <<l, r>>
     ELSE IF Len(nl) = 4 THEN feistelLoop(key, rev, round_num + 1, r, nl)
     ELSE <<l, r>>

\* encrypt_block: res[..4] = right, res[4..] = left
encrypt_block(key, block) ==
  LET lr == feistelLoop(key, FALSE, 0, SubSeq(block, 1, 4), SubSeq(block, 5, 8))
  IN lr[2] \o lr[1]

decrypt_block(key, block) ==
  LET lr == feistelLoop(key, TRUE, 0, SubSeq(block, 1, 4), SubSeq(block, 5, 8))
  IN lr[2] \o lr[1]

\* ---------------------------------------------------------------------------
\* GOST compression function (src/gost_hash.rs)
\* ---------------------------------------------------------------------------

phi(x) == 8 * ((x - 1) % 4) + (((x - 1) \div 4) + 1)

\* the positions the loop `for i in 1..32` of GostHash::p visits
p_range == 1..31

\* GostHash::p: k starts as [0u8; 32]; k[i - 1] = x[phi(i) - 1] for the i visited
p(x) == Strict([j \in 1..32 |-> IF j \in p_range THEN x[phi(j)] ELSE 0])

\* GostHash::a
a(x) == SubSeq(x, 9, 32) \o xor(SubSeq(x, 1, 8), SubSeq(x, 9, 16))

\* GostHash::psy
psy(x) ==
  LET t1 == xor(SubSeq(x, 1, 2), SubSeq(x, 3, 4))
      t2 == xor(t1, SubSeq(x, 5, 6))
      t3 == xor(t2, SubSeq(x, 7, 8))
      t4 == xor(t3, SubSeq(x, 25, 26))
      t5 == xor(t4, SubSeq(x, 31, 32))
  IN SubSeq(x, 3, 32) \o t5

\* psy_rev without the gamma1 term
psy_rev_no_gamma1(x) ==
  LET s  == <<0, 0>> \o SubSeq(x, 1, 30)
      t1 == xor(SubSeq(x, 31, 32), SubSeq(s, 31, 32))
      t2 == xor(t1, SubSeq(s, 25, 26))
      t3 == xor(t2, SubSeq(s, 7, 8))
      t4 == xor(t3, SubSeq(s, 5, 6))
  IN t4 \o SubSeq(s, 3, 32)

\* GostHash::psy_rev
psy_rev(x) ==
  LET s  == <<0, 0>> \o SubSeq(x, 1, 30)
      t1 == xor(SubSeq(x, 31, 32), SubSeq(s, 31, 32))
      t2 == xor(t1, SubSeq(s, 25, 26))
      t3 == xor(t2, SubSeq(s, 7, 8))
      t4 == xor(t3, SubSeq(s, 5, 6))
      t5 == xor(t4, SubSeq(s, 3, 4))
  IN t5 \o SubSeq(s, 3, 32)

\* GostHash::psy_pow
RECURSIVE psy_pow(_, _)
psy_pow(x, n) ==
  LET y == IF n > 0 THEN psy(x) ELSE psy_rev(x)
  IN IF n = 0 \/ Len(y) # 32 THEN x
     ELSE IF n > 0 THEN psy_pow(y, n - 1)
     ELSE psy_pow(y, n + 1)

\* the constant c with 0x03 in every symbol
key_gen_c_all_ones == [j \in 1..32 |-> 3]

\* the constant c of GostHash::key_gen
key_gen_c ==
  <<0, 3, 0, 3, 0, 3, 0, 3, 3, 0, 3, 0, 3, 0, 3, 0,
    0, 3, 3, 0, 3, 0, 0, 3, 3, 0, 0, 0, 3, 3, 0, 3>>

\* GostHash::key_gen: the four keys k0..k3
key_gen(h, m) ==
  LET k0 == p(xor(h, m))
      h1 == a(h)
      m1 == a(a(m))
      k1 == p(xor(h1, m1))
      h2 == xor(a(h1), key_gen_c)
      m2 == a(a(m1))
      k2 == p(xor(h2, m2))
      h3 == a(h2)
      m3 == a(a(m2))
      k3 == p(xor(h3, m3))
  IN <<k0, k1, k2, k3>>

\* GostHash::output_transformation
output_transformation(s, h, m) ==
  psy_pow(xor(h, psy(xor(m, psy_pow(s, 12)))), 61)

\* GostHash::compress
compress(h, m) ==
  LET k == key_gen(h, m)
      s == encrypt_block(k[1], SubSeq(h, 1, 8))
           \o encrypt_block(k[2], SubSeq(h, 9, 16))
           \o encrypt_block(k[3], SubSeq(h, 17, 24))
           \o encrypt_block(k[4], SubSeq(h, 25, 32))
  IN output_transformation(s, h, m)

\* ---------------------------------------------------------------------------
\* The attacker's pure functions (src/gost_collision.rs)
\* ---------------------------------------------------------------------------

\* static SEEKERS
SEEKERS == 16

\* The half-keys of the model, in ascending order, each given by its four
\* bytes (least significant first).  They stand for the 2^32 values of u32:
\* a sweep of the model walks the indices 0..U32_MAX of this list as the code
\* walks 0..u32::MAX, and the last one is u32::MAX itself.
KeySample ==
  <<
    <<0, 0, 0, 0>>,
    <<3, 0, 0, 0>>,
    <<44, 1, 0, 0>>,
    <<21, 21, 0, 0>>,
    <<1, 0, 1, 0>>,
    <<112, 17, 1, 0>>,
    <<4, 4, 1, 1>>,
    <<64, 102, 3, 1>>,
    <<69, 4, 64, 1>>,
    <<239, 134, 104, 1>>,
    <<64, 120, 125, 1>>,
    <<199, 4, 194, 1>>,
    <<211, 16, 194, 1>>,
    <<128, 195, 201, 1>>,
    <<208, 217, 190, 14>>,
    <<117, 94, 59, 17>>,
    <<51, 137, 237, 20>>,
    <<17, 66, 123, 26>>,
    <<55, 103, 0, 41>>,
    <<56, 14, 73, 85>>,
    <<248, 35, 0, 96>>,
    <<14, 129, 117, 103>>,
    <<245, 168, 73, 132>>,
    <<43, 234, 145, 139>>,
    <<93, 242, 147, 151>>,
    <<121, 231, 1, 169>>,
    <<166, 12, 3, 169>>,
    <<36, 98, 161, 212>>,
    <<26, 15, 204, 216>>,
    <<148, 183, 68, 235>>,
    <<228, 167, 9, 245>>,
    <<255, 255, 255, 255>>
  >>

\* std::u32::MAX, scaled to the sample
U32_MAX == Len(KeySample) - 1

\* the u32 with the four bytes b
HalfKeyOfBytes(b) ==
  le_to_half_blk(b[1]) \o le_to_half_blk(b[2])
  \o le_to_half_blk(b[3]) \o le_to_half_blk(b[4])

\* the half-key at index n of the sample
HalfKeyAt(n) == HalfKeyOfBytes(KeySample[n + 1])

\* ((half_key >> 8 * j) & 0xff) as u8
KeyByte(half_key, j) == SubSeq(half_key, 4 * j + 1, 4 * j + 4)

\* (y & 0xffff) as Block
LowBlock(y) == SubSeq(y, 1, 8)

\* P^-1, which has no definition among the source files: the inverse of the
\* permutation P of all 32 positions, P(s)[i - 1] = s[phi(i) - 1]
p_rev(y) ==
  Strict([q \in 1..32 |-> y[CHOOSE i \in 1..32 : phi(i) = q]])

\* GostAttack::_apply_operator
apply_operator_direct(k0) == LowBlock(psy_pow(p_rev(k0), -12))

\* 1u64 << n
BaseVector(n) ==
  Strict([j \in 1..32 |-> IF j = (n \div 2) + 1 THEN 1 + (n % 2) ELSE 0])

\* GostAttack::get_operator_values; entry n + 1 is ret[n]
operator_on_base_vectors ==
  [n \in 1..64 |-> apply_operator_direct(BaseVector(n - 1))]

\* (k >> n) & 0b1
BitOf(k, n) == (k[(n \div 2) + 1] \div (2 ^ (n % 2))) % 2

\* the loop of apply_operator over 0..63 instead of 0..64
RECURSIVE applyLoop_short(_, _, _, _)
applyLoop_short(b, k, n, acc) ==
  IF n >= 63 THEN acc
  ELSE LET nacc == IF BitOf(k, n) = 1 THEN xor(acc, b[n + 1]) ELSE acc
       IN IF Len(nacc) = 8 THEN applyLoop_short(b, k, n + 1, nacc) ELSE acc

RECURSIVE applyLoop(_, _, _, _)
applyLoop(b, k, n, acc) ==
  IF n >= 64 THEN acc
  ELSE LET nacc == IF BitOf(k, n) = 1 THEN xor(acc, b[n + 1]) ELSE acc
       IN IF Len(nacc) = 8 THEN applyLoop(b, k, n + 1, nacc) ELSE acc

\* GostAttack::apply_operator
apply_operator(b, k) == applyLoop(b, k, 0, Zeros(8))

\* GostAttack::check_equasion
check_equasion(b, half_key, d, first_half) ==
  LET mock_key == IF first_half THEN half_key \o Zeros(16)
                  ELSE Zeros(16) \o half_key
  IN apply_operator(b, mock_key) = d

\* GostAttack::convert_to_message
convert_to_message(h, k) == xor(p_rev(k), h)

\* what calculate_d stores in ctx.d for the drawn c
calculate_d(h, c) ==
  LET y1 == psy_pow(h, -12)
      c1 == xor(c, LowBlock(y1))
      y2 == psy_pow(y1, -1)
  IN xor(c1, LowBlock(y2))

\* the worker closure's range first..second for seeker i
Segment(i) ==
  LET step   == U32_MAX \div SEEKERS
      first  == i * step
      second == IF i = SEEKERS - 1 THEN U32_MAX ELSE (i + 1) * step
  IN first..(second - 1)

\* the indices seeker i probes, in the order it probes them
RECURSIVE Ascending(_)
Ascending(S) ==
  IF S = {} THEN <<>>
  ELSE LET lo == CHOOSE n \in S : \A o \in S : n <= o
       IN <<lo>> \o Ascending(S \ {lo})

\* the four rounds of a forward worker and the block it inserts under
ForwardBlock(h, half_key) ==
  LET left0 == SubSeq(h, 1, 4)
      right == SubSeq(h, 5, 8)
      left1 == round(left0, right, KeyByte(half_key, 0))
      left2 == round(left1, right, KeyByte(half_key, 1))
      left3 == round(left2, right, KeyByte(half_key, 2))
      left4 == round(left3, right, KeyByte(half_key, 3))
  IN left4 \o right

\* the four rounds of a backward worker and the block it looks up
BackwardBlock(h, half_key) ==
  LET right == SubSeq(h, 1, 4)
      left0 == SubSeq(h, 5, 8)
      left1 == round(left0, right, KeyByte(half_key, 3))
      left2 == round(left1, right, KeyByte(half_key, 2))
      left3 == round(left2, right, KeyByte(half_key, 1))
      left4 == round(left3, right, KeyByte(half_key, 0))
  IN right \o left4

\* the insertions seeker w makes into l during seek_forward(d1)
ForwardInserts(h, d1) ==
  {[w |-> w, n |-> n, block |-> ForwardBlock(h, HalfKeyAt(n)), half_key |-> HalfKeyAt(n)] :
     <<w, n>> \in {wn \in (0..(SEEKERS - 1)) \X (0..U32_MAX) :
                     /\ wn[2] \in Segment(wn[1])
                     /\ check_equasion(operator_on_base_vectors, HalfKeyAt(wn[2]), d1, TRUE)}}

\* the orders in which the insertions E can take the write lock: each
\* seeker makes its own in ascending order, the seekers interleave freely
InsertOrders(E) ==
  {s \in [1..Cardinality(E) -> E] :
     /\ \A e \in E : \E c \in DOMAIN s : s[c] = e
     /\ \A c1, c2 \in DOMAIN s :
          (c1 < c2 /\ s[c1].w = s[c2].w) => s[c1].n < s[c2].n}

\* HashMap::insert of every insertion of s, in order
RECURSIVE InsertAll(_, _)
InsertAll(table, s) ==
  IF s = <<>> THEN table
  ELSE LET e == Head(s)
       IN InsertAll([b \in DOMAIN table \cup {e.block} |->
                        IF b = e.block THEN e.half_key ELSE table[b]], Tail(s))

EmptyTable == [b \in {} |-> <<>>]

\* the messages the backward seekers insert into fixed_points
BackwardInserts(h, table, d2) ==
  {convert_to_message(h, table[BackwardBlock(h, HalfKeyAt(n))] \o HalfKeyAt(n)) :
     n \in {n \in UNION {Segment(w) : w \in 0..(SEEKERS - 1)} :
              /\ check_equasion(operator_on_base_vectors, HalfKeyAt(n), d2, FALSE)
              /\ BackwardBlock(h, HalfKeyAt(n)) \in DOMAIN table}}

\* the number of symbols of two compress results that are compared
DigestLen == 2

\* compress(h, m1) == compress(h, m2)
SameCompress(h, m1, m2) ==
  SubSeq(compress(h, m1), 1, DigestLen) = SubSeq(compress(h, m2), 1, DigestLen)

\* the orders in which HashSet::iter can walk F
IterOrders(F) ==
  {s \in [1..Cardinality(F) -> F] : \A m \in F : \E c \in DOMAIN s : s[c] = m}

\* get_collision with skip(i) for skip(i + 1)
get_collision_skip_i(h, ord) ==
  LET hits == {ij \in (1..Len(ord)) \X (1..Len(ord)) :
                 ij[1] <= ij[2] /\ SameCompress(h, ord[ij[1]], ord[ij[2]])}
  IN IF hits = {} THEN <<>>
     ELSE LET f == CHOOSE ij \in hits : \A o \in hits :
                     ij[1] < o[1] \/ (ij[1] = o[1] /\ ij[2] <= o[2])
          IN <<ord[f[1]], ord[f[2]]>>

\* GostAttack::get_collision over the iteration order ord: the first pair
\* (ord[i], ord[j]), j after i, of the nested loops with equal compress
\* results, <<>> for None
get_collision(h, ord) ==
  LET hits == {ij \in (1..Len(ord)) \X (1..Len(ord)) :
                 ij[1] < ij[2] /\ SameCompress(h, ord[ij[1]], ord[ij[2]])}
  IN IF hits = {} THEN <<>>
     ELSE LET f == CHOOSE ij \in hits : \A o \in hits :
                     ij[1] < o[1] \/ (ij[1] = o[1] /\ ij[2] <= o[2])
          IN <<ord[f[1]], ord[f[2]]>>

\* ===========================================================================
\* State
\* ===========================================================================

VARIABLES
  \* utils::pack / utils::unpack calls
  pk_pc,        \* "start", "packed", "panicked", "done"; "idle" when unused
  pk_in,        \* the symbol slice given to pack
  pk_build,     \* the build that runs the call
  pk_out,       \* what pack returned: [ok, val]
  pk_back,      \* what unpack wrote
  \* MagmaKeyScheduler
  magma_key,    \* MagmaKeyScheduler.magma_key.key
  sched_rev,    \* TRUE when the scheduler is consumed through .rev()
  round_num,    \* MagmaKeyScheduler.round_num
  yielded,      \* the items returned so far, <<>> for None
  \* Magma
  mg_pc,        \* "new", "encrypted", "decrypted"; "idle" when unused
  key,          \* Magma.key.key
  state,        \* Magma.state: [left, right]
  mg_block,     \* the plaintext block
  encrypted,    \* the result of encrypt_block
  decrypted,    \* the result of decrypt_block
  \* GostHash transforms
  hs_pc,        \* "start", "p", "pow"; "idle" when unused
  hs_s,         \* the State the transform is applied to
  hs_a,         \* exponents
  hs_b,
  hs_out,       \* p(hs_s), or psy_pow(psy_pow(hs_s, hs_b), hs_a)
  hs_sum,       \* psy_pow(hs_s, hs_a + hs_b)
  \* GostAttack
  at_pc,        \* "main", "new", "constructed", "fill", "backward", "retry",
                \* "returned", "panicked"; "idle" when unused
  at_entry,     \* "cli": the binary's main; "lib": a caller of GostAttack::new
  at_build,     \* the build that runs
  at_h,         \* the state block given by the caller
  ctx_h,        \* GostAttackContext.h
  ctx_d,        \* GostAttackContext.d
  fixed_points, \* GostAttackContext.fixed_points
  fill_i,       \* i of find_fixed_points
  l_table,      \* l of find_fixed_points_round
  probed,       \* the indices each seeker of the last sweep probed, in order
  rng_draws,    \* the number of values taken from rand::thread_rng()
  ret,          \* the pair generate_collision returned
  \* GostHash::key_gen
  kg_pc,        \* "start", "k0", "k1", "k2", "k3"; "idle" when unused
  kg_h,         \* the arguments h and m
  kg_m,
  cur_h,        \* cur_h and cur_m of key_gen
  cur_m,
  prev_h,       \* cur_h before the last step
  kg_keys,      \* the keys computed so far: k0, k1, k2, k3
  \* test::operator_application_methods
  op_pc,        \* "start", "table", "applied"; "idle" when unused
  op_k,         \* k
  op_a,         \* a: the table of get_operator_values
  op_direct,    \* _apply_operator(k)
  op_table,     \* apply_operator(a, k)
  \* the four Magma::round calls of a forward seeker
  rd_pc,        \* "run"; "idle" when unused
  rd_half_key,  \* half_key
  rd_left,      \* left
  rd_right,     \* right
  rd_n,         \* the number of calls of Magma::round made
  rd_left0,     \* _left and _right
  rd_right0,
  \* one find_fixed_points_round, thread by thread
  sw_pc,        \* the driver: "spawn_forward", "join_forward", "spawn_backward",
                \* "join_backward", "done"; "idle" when unused
  sw_i,         \* the driver's position in its spawn loop or its join loop
  sw_h,         \* *self.ctx.h
  sw_d1,        \* d1 and d2 of find_fixed_points_round
  sw_d2,
  seekers,      \* the seeker threads: [pc, n], n the half-key the seeker is at
  sw_l,         \* l, the HashMap of the round
  l_lock,       \* the RwLock of l: [writer, readers]
  sw_fixed,     \* fixed_points
  fixed_lock,   \* the RwLock of fixed_points: [writer, readers]
  sw_writes     \* the insertions into l in the order they took the write lock

packVars  == <<pk_pc, pk_in, pk_build, pk_out, pk_back>>
schedVars == <<magma_key, sched_rev, round_num, yielded>>
magmaVars == <<mg_pc, key, state, mg_block, encrypted, decrypted>>
hashVars  == <<hs_pc, hs_s, hs_a, hs_b, hs_out, hs_sum>>

attackVars ==
  <<at_pc, at_entry, at_build, at_h, ctx_h, ctx_d, fixed_points, fill_i,
    l_table, probed, rng_draws, ret>>

keygenVars == <<kg_pc, kg_h, kg_m, cur_h, cur_m, prev_h, kg_keys>>

operVars == <<op_pc, op_k, op_a, op_direct, op_table>>

roundVars == <<rd_pc, rd_half_key, rd_left, rd_right, rd_n, rd_left0, rd_right0>>

sweepVars ==
  <<sw_pc, sw_i, sw_h, sw_d1, sw_d2, seekers, sw_l, l_lock, sw_fixed,
    fixed_lock, sw_writes>>

vars == <<packVars, schedVars, magmaVars, hashVars, attackVars, keygenVars, operVars, roundVars, sweepVars>>

PackIdle ==
  pk_pc = "idle" /\ pk_in = <<>> /\ pk_build = "release"
  /\ pk_out = Panic /\ pk_back = <<>>

SchedIdle ==
  magma_key = <<>> /\ sched_rev = FALSE /\ round_num = 0 /\ yielded = <<>>

MagmaIdle ==
  mg_pc = "idle" /\ key = <<>> /\ state = [left |-> Zeros(4), right |-> Zeros(4)]
  /\ mg_block = <<>> /\ encrypted = <<>> /\ decrypted = <<>>

HashIdle ==
  hs_pc = "idle" /\ hs_s = <<>> /\ hs_a = 0 /\ hs_b = 0
  /\ hs_out = <<>> /\ hs_sum = <<>>

NoProbes == [w \in 0..(SEEKERS - 1) |-> <<>>]

AttackIdle ==
  /\ at_pc = "idle" /\ at_entry = "lib" /\ at_build = "release" /\ at_h = <<>>
  /\ ctx_h = <<>> /\ ctx_d = <<>> /\ fixed_points = {} /\ fill_i = 0
  /\ l_table = EmptyTable /\ probed = NoProbes /\ rng_draws = 0 /\ ret = <<>>

KeyGenIdle ==
  /\ kg_pc = "idle" /\ kg_h = <<>> /\ kg_m = <<>>
  /\ cur_h = <<>> /\ cur_m = <<>> /\ prev_h = <<>> /\ kg_keys = <<>>

OperIdle ==
  /\ op_pc = "idle" /\ op_k = <<>> /\ op_a = <<>>
  /\ op_direct = <<>> /\ op_table = <<>>

RoundIdle ==
  /\ rd_pc = "idle" /\ rd_half_key = <<>> /\ rd_left = <<>> /\ rd_right = <<>>
  /\ rd_n = 0 /\ rd_left0 = <<>> /\ rd_right0 = <<>>

\* no thread holds the lock
Unlocked == [writer |-> -1, readers |-> {}]

\* no seeker thread has been spawned
NoSeekers == [w \in 0..(SEEKERS - 1) |-> [pc |-> "unspawned", n |-> 0]]

SweepIdle ==
  /\ sw_pc = "idle" /\ sw_i = 0 /\ sw_h = <<>> /\ sw_d1 = <<>> /\ sw_d2 = <<>>
  /\ seekers = NoSeekers /\ sw_l = EmptyTable /\ l_lock = Unlocked
  /\ sw_fixed = {} /\ fixed_lock = Unlocked /\ sw_writes = <<>>

\* ---------------------------------------------------------------------------
\* Inputs
\* ---------------------------------------------------------------------------

\* symbol vectors of length n with at most one non-zero symbol, and all 3s
Units(n) ==
  {[j \in 1..n |-> IF j = q THEN v ELSE 0] : q \in 1..n, v \in Symbols}
  \cup {[j \in 1..n |-> 3]}

\* symbol vectors of length n with at most two non-zero symbols
Pairs(n) ==
  {[j \in 1..n |-> IF j = q1 THEN v1 ELSE IF j = q2 THEN v2 ELSE 0] :
      q1 \in 1..n, q2 \in 1..n, v1 \in Symbols, v2 \in Symbols}

\* the key and the block of test::ecryption_decryption_test
TestKey ==
  <<0, 1, 2, 3, 0, 1, 2, 3, 0, 1, 2, 3, 0, 1, 2, 3,
    0, 1, 2, 3, 0, 1, 2, 3, 0, 1, 2, 3, 3, 2, 1, 0>>

TestBlock == <<1, 2, 3, 0, 0, 1, 3, 2>>

\* a key whose eight subkeys are pairwise different
DistinctKey ==
  <<0, 0, 0, 1, 1, 0, 0, 2, 2, 0, 0, 3, 3, 0, 1, 0,
    0, 1, 1, 1, 1, 1, 1, 2, 2, 1, 1, 3, 3, 1, 2, 0>>

\* the h and the m of test::naive_compression_test
TestH ==
  <<0, 1, 2, 3, 0, 1, 2, 3, 0, 1, 2, 3, 0, 1, 2, 3,
    0, 1, 2, 3, 0, 1, 2, 3, 0, 1, 2, 3, 0, 1, 2, 3>>

TestM ==
  <<3, 1, 3, 0, 2, 3, 0, 1, 3, 1, 3, 0, 2, 3, 0, 1,
    3, 1, 3, 0, 2, 3, 0, 1, 3, 1, 3, 0, 2, 3, 0, 1>>

PackWidths == {4, 8, 16, 32}

PackInputs == UNION {Units(n) : n \in PackWidths} \cup {TestBlock, TestH}

MagmaKeys == {TestKey, DistinctKey, TestM}

MagmaBlocks == Pairs(8) \cup {TestBlock}

HashStates == Units(32) \cup {TestH, TestM}

\* the largest |exponent| given to psy_pow
MaxExp == 3

\* the number of calls made on one scheduler
MaxCalls == 34

\* ---------------------------------------------------------------------------
\* utils::pack, utils::unpack
\* ---------------------------------------------------------------------------

PackInit ==
  /\ pk_pc = "start"
  /\ pk_in \in PackInputs
  /\ pk_build \in Builds
  /\ pk_out = Panic
  /\ pk_back = <<>>
  /\ SchedIdle /\ MagmaIdle /\ HashIdle /\ AttackIdle /\ KeyGenIdle /\ OperIdle /\ RoundIdle /\ SweepIdle

\* pack::<T>(&pk_in), T the unsigned type of 2 * Len(pk_in) bits
Pack ==
  /\ pk_pc = "start"
  /\ pk_out' = pack(pk_in, Len(pk_in), pk_build)
  /\ pk_pc' = IF pk_out'.ok THEN "packed" ELSE "panicked"
  /\ UNCHANGED <<pk_in, pk_build, pk_back>>
  /\ UNCHANGED <<schedVars, magmaVars, hashVars, attackVars, keygenVars, operVars, roundVars, sweepVars>>

\* unpack(&mut [0; n], pk_out)
Unpack ==
  /\ pk_pc = "packed"
  /\ pk_back' = unpack(Len(pk_in), pk_out.val)
  /\ pk_pc' = "done"
  /\ UNCHANGED <<pk_in, pk_build, pk_out>>
  /\ UNCHANGED <<schedVars, magmaVars, hashVars, attackVars, keygenVars, operVars, roundVars, sweepVars>>

PackNext == Pack \/ Unpack

SpecPack == PackInit /\ [][PackNext]_vars

\* ---------------------------------------------------------------------------
\* MagmaKeyScheduler
\* ---------------------------------------------------------------------------

SchedInit ==
  /\ magma_key \in {TestKey, DistinctKey}
  /\ sched_rev \in BOOLEAN
  /\ round_num = 0
  /\ yielded = <<>>
  /\ PackIdle /\ MagmaIdle /\ HashIdle /\ AttackIdle /\ KeyGenIdle /\ OperIdle /\ RoundIdle /\ SweepIdle

\* one call of next() on MagmaKeyScheduler
SchedNext ==
  /\ ~sched_rev
  /\ round_num < MaxCalls
  /\ round_num' = round_num + 1
  /\ yielded' = Append(yielded, next(magma_key, round_num'))
  /\ UNCHANGED <<magma_key, sched_rev>>
  /\ UNCHANGED <<packVars, magmaVars, hashVars, attackVars, keygenVars, operVars, roundVars, sweepVars>>

\* one call of next() on Rev<MagmaKeyScheduler>, which is next_back()
SchedNextBack ==
  /\ sched_rev
  /\ round_num < MaxCalls
  /\ round_num' = round_num + 1
  /\ yielded' = Append(yielded, next_back(magma_key, round_num'))
  /\ UNCHANGED <<magma_key, sched_rev>>
  /\ UNCHANGED <<packVars, magmaVars, hashVars, attackVars, keygenVars, operVars, roundVars, sweepVars>>

SchedStep == SchedNext \/ SchedNextBack

SpecSched == SchedInit /\ [][SchedStep]_vars

\* ---------------------------------------------------------------------------
\* Magma
\* ---------------------------------------------------------------------------

\* Magma::new(&key), then the block to encrypt
MagmaInit ==
  /\ mg_pc = "new"
  /\ key \in MagmaKeys
  /\ state = [left |-> Zeros(4), right |-> Zeros(4)]
  /\ mg_block \in MagmaBlocks
  /\ encrypted = <<>>
  /\ decrypted = <<>>
  /\ PackIdle /\ SchedIdle /\ HashIdle /\ AttackIdle /\ KeyGenIdle /\ OperIdle /\ RoundIdle /\ SweepIdle

\* magma.encrypt_block(&mg_block)
EncryptBlock ==
  /\ mg_pc = "new"
  /\ LET lr == feistelLoop(key, FALSE, 0, SubSeq(mg_block, 1, 4), SubSeq(mg_block, 5, 8))
     IN /\ state' = [left |-> lr[1], right |-> lr[2]]
        /\ encrypted' = encrypt_block(key, mg_block)
  /\ mg_pc' = "encrypted"
  /\ UNCHANGED <<key, mg_block, decrypted>>
  /\ UNCHANGED <<packVars, schedVars, hashVars, attackVars, keygenVars, operVars, roundVars, sweepVars>>

\* magma.decrypt_block(&encrypted) on the same instance
DecryptBlock ==
  /\ mg_pc = "encrypted"
  /\ LET lr == feistelLoop(key, TRUE, 0, SubSeq(encrypted, 1, 4), SubSeq(encrypted, 5, 8))
     IN /\ state' = [left |-> lr[1], right |-> lr[2]]
        /\ decrypted' = decrypt_block(key, encrypted)
  /\ mg_pc' = "decrypted"
  /\ UNCHANGED <<key, mg_block, encrypted>>
  /\ UNCHANGED <<packVars, schedVars, hashVars, attackVars, keygenVars, operVars, roundVars, sweepVars>>

MagmaNext == EncryptBlock \/ DecryptBlock

SpecMagma == MagmaInit /\ [][MagmaNext]_vars

\* ---------------------------------------------------------------------------
\* GostHash transforms
\* ---------------------------------------------------------------------------

HashInit ==
  /\ hs_pc = "start"
  /\ hs_s \in HashStates
  /\ hs_a \in -MaxExp..MaxExp
  /\ hs_b \in -MaxExp..MaxExp
  /\ hs_out = <<>>
  /\ hs_sum = <<>>
  /\ PackIdle /\ SchedIdle /\ MagmaIdle /\ AttackIdle /\ KeyGenIdle /\ OperIdle /\ RoundIdle /\ SweepIdle

\* GostHash::p(&hs_s)
ApplyP ==
  /\ hs_pc = "start"
  /\ hs_out' = p(hs_s)
  /\ hs_pc' = "p"
  /\ UNCHANGED <<hs_s, hs_a, hs_b, hs_sum>>
  /\ UNCHANGED <<packVars, schedVars, magmaVars, attackVars, keygenVars, operVars, roundVars, sweepVars>>

\* GostHash::psy_pow(&GostHash::psy_pow(&hs_s, hs_b), hs_a) and
\* GostHash::psy_pow(&hs_s, hs_a + hs_b)
ApplyPsyPow ==
  /\ hs_pc = "start"
  /\ hs_out' = psy_pow(psy_pow(hs_s, hs_b), hs_a)
  /\ hs_sum' = psy_pow(hs_s, hs_a + hs_b)
  /\ hs_pc' = "pow"
  /\ UNCHANGED <<hs_s, hs_a, hs_b>>
  /\ UNCHANGED <<packVars, schedVars, magmaVars, attackVars, keygenVars, operVars, roundVars, sweepVars>>

HashNext == ApplyP \/ ApplyPsyPow

SpecHash == HashInit /\ [][HashNext]_vars

\* ---------------------------------------------------------------------------
\* GostHash::key_gen, step by step
\* ---------------------------------------------------------------------------

\* the messages key_gen is run on
KeyGenMessages == {Zeros(32), TestM, [j \in 1..32 |-> 3]}

KeyGenInit ==
  /\ kg_pc = "start"
  /\ kg_h \in HashStates
  /\ kg_m \in KeyGenMessages
  /\ cur_h = kg_h
  /\ cur_m = kg_m
  /\ prev_h = <<>>
  /\ kg_keys = <<>>
  /\ PackIdle /\ SchedIdle /\ MagmaIdle /\ HashIdle /\ AttackIdle /\ OperIdle /\ RoundIdle /\ SweepIdle

\* Step 1: k0 = p(xor(cur_h, cur_m))
KeyGenStep1 ==
  /\ kg_pc = "start"
  /\ kg_keys' = <<p(xor(cur_h, cur_m))>>
  /\ kg_pc' = "k0"
  /\ UNCHANGED <<kg_h, kg_m, cur_h, cur_m, prev_h>>
  /\ UNCHANGED <<packVars, schedVars, magmaVars, hashVars, attackVars, operVars, roundVars, sweepVars>>

\* Step 2: cur_h = a(cur_h), cur_m = a(a(cur_m)), k1
KeyGenStep2 ==
  /\ kg_pc = "k0"
  /\ prev_h' = cur_h
  /\ cur_h' = a(cur_h)
  /\ cur_m' = a(a(cur_m))
  /\ kg_keys' = Append(kg_keys, p(xor(cur_h', cur_m')))
  /\ kg_pc' = "k1"
  /\ UNCHANGED <<kg_h, kg_m>>
  /\ UNCHANGED <<packVars, schedVars, magmaVars, hashVars, attackVars, operVars, roundVars, sweepVars>>

\* Step 3: cur_h = xor(a(cur_h), c), cur_m = a(a(cur_m)), k2
KeyGenStep3 ==
  /\ kg_pc = "k1"
  /\ prev_h' = cur_h
  /\ cur_h' = xor(a(cur_h), key_gen_c)
  /\ cur_m' = a(a(cur_m))
  /\ kg_keys' = Append(kg_keys, p(xor(cur_h', cur_m')))
  /\ kg_pc' = "k2"
  /\ UNCHANGED <<kg_h, kg_m>>
  /\ UNCHANGED <<packVars, schedVars, magmaVars, hashVars, attackVars, operVars, roundVars, sweepVars>>

\* Step 4: cur_h = a(cur_h), cur_m = a(a(cur_m)), k3
KeyGenStep4 ==
  /\ kg_pc = "k2"
  /\ prev_h' = cur_h
  /\ cur_h' = a(cur_h)
  /\ cur_m' = a(a(cur_m))
  /\ kg_keys' = Append(kg_keys, p(xor(cur_h', cur_m')))
  /\ kg_pc' = "k3"
  /\ UNCHANGED <<kg_h, kg_m>>
  /\ UNCHANGED <<packVars, schedVars, magmaVars, hashVars, attackVars, operVars, roundVars, sweepVars>>

KeyGenNext == KeyGenStep1 \/ KeyGenStep2 \/ KeyGenStep3 \/ KeyGenStep4

SpecKeyGen == KeyGenInit /\ [][KeyGenNext]_vars

\* ---------------------------------------------------------------------------
\* The operator and its table (test::operator_application_methods)
\* ---------------------------------------------------------------------------

\* the keys k the test draws in the model
OperatorKeys == Units(32) \cup {TestH, TestM, key_gen_c}

OperInit ==
  /\ op_pc = "start"
  /\ op_k \in OperatorKeys
  /\ op_a = <<>>
  /\ op_direct = <<>>
  /\ op_table = <<>>
  /\ PackIdle /\ SchedIdle /\ MagmaIdle /\ HashIdle /\ AttackIdle /\ KeyGenIdle /\ RoundIdle /\ SweepIdle

\* let a = Arc::new(super::GostAttack::get_operator_values())
GetOperatorValues ==
  /\ op_pc = "start"
  /\ op_a' = operator_on_base_vectors
  /\ op_pc' = "table"
  /\ UNCHANGED <<op_k, op_direct, op_table>>
  /\ UNCHANGED <<packVars, schedVars, magmaVars, hashVars, attackVars, keygenVars, roundVars, sweepVars>>

\* the two sides of the assert_eq! of the test
ApplyOperator ==
  /\ op_pc = "table"
  /\ op_direct' = apply_operator_direct(op_k)
  /\ op_table' = apply_operator(op_a, op_k)
  /\ op_pc' = "applied"
  /\ UNCHANGED <<op_k, op_a>>
  /\ UNCHANGED <<packVars, schedVars, magmaVars, hashVars, attackVars, keygenVars, roundVars, sweepVars>>

OperNext == GetOperatorValues \/ ApplyOperator

SpecOper == OperInit /\ [][OperNext]_vars

\* ---------------------------------------------------------------------------
\* The calls of Magma::round a forward seeker makes for one half_key
\* ---------------------------------------------------------------------------

\* the half-blocks _left and _right are drawn from
RoundHalves == {Zeros(4), <<1, 2, 3, 0>>, <<0, 1, 3, 2>>, <<3, 3, 3, 3>>, <<2, 0, 0, 1>>}

\* the half-keys the calls are made for
RoundHalfKeys == {HalfKeyAt(n) : n \in {0, 3, 6, 25, 28, 31}}

RoundInit ==
  /\ rd_pc = "run"
  /\ rd_half_key \in RoundHalfKeys
  /\ rd_left0 \in RoundHalves
  /\ rd_right0 \in RoundHalves
  /\ rd_left = rd_left0
  /\ rd_right = rd_right0
  /\ rd_n = 0
  /\ PackIdle /\ SchedIdle /\ MagmaIdle /\ HashIdle /\ AttackIdle /\ KeyGenIdle /\ OperIdle /\ SweepIdle

\* magma::Magma::round(&mut left, &mut right, ((half_key >> 8 * rd_n) & 0xff) as u8)
RoundCall ==
  /\ rd_pc = "run"
  /\ rd_n < 4
  /\ rd_left' = round(rd_left, rd_right, KeyByte(rd_half_key, rd_n))
  /\ rd_right' = rd_right
  /\ rd_n' = rd_n + 1
  /\ UNCHANGED <<rd_pc, rd_half_key, rd_left0, rd_right0>>
  /\ UNCHANGED <<packVars, schedVars, magmaVars, hashVars, attackVars, keygenVars, operVars, sweepVars>>

RoundNext == RoundCall

SpecRound == RoundInit /\ [][RoundNext]_vars

\* ---------------------------------------------------------------------------
\* GostAttack and the binary get_collision
\* ---------------------------------------------------------------------------

\* a state block with symmetric first quarter, one more, and one whose first
\* quarter is not symmetric
HInputs ==
  { Zeros(32),
    [j \in 1..32 |-> IF j \in {2, 6} THEN 1 ELSE 0],
    [j \in 1..32 |-> IF j = 1 THEN 2 ELSE 0] }

\* the values rand::thread_rng().gen::<Block>() gives in the model
Draws == {Digits(5, 8), Digits(6, 8)}

\* the size of fixed_points at which the fill loop ends (16777216 in the code)
FTarget == 2

\* the rounds one fill loop may run in the model
MaxRound == 3

\* &h[..4] != &h[4..8]
FirstQuarterSymmetric(h) == SubSeq(h, 1, 4) = SubSeq(h, 5, 8)

AttackInit ==
  /\ at_entry \in {"cli", "lib"}
  /\ at_pc = IF at_entry = "cli" THEN "main" ELSE "new"
  /\ at_build \in Builds
  /\ at_h \in HInputs
  /\ ctx_h = <<>> /\ ctx_d = <<>> /\ fixed_points = {} /\ fill_i = 0
  /\ l_table = EmptyTable /\ probed = NoProbes /\ rng_draws = 0 /\ ret = <<>>
  /\ PackIdle /\ SchedIdle /\ MagmaIdle /\ HashIdle /\ KeyGenIdle /\ OperIdle /\ RoundIdle /\ SweepIdle

\* parse_args of the binary
ParseArgs ==
  /\ at_pc = "main"
  /\ at_pc' = IF /\ Len(at_h) = 32
                 /\ FirstQuarterSymmetric(at_h)
                 /\ \A j \in 1..Len(at_h) : at_h[j] <= 3
              THEN "new" ELSE "panicked"
  /\ UNCHANGED <<at_entry, at_build, at_h, ctx_h, ctx_d, fixed_points, fill_i,
                 l_table, probed, rng_draws, ret>>
  /\ UNCHANGED <<packVars, schedVars, magmaVars, hashVars, keygenVars, operVars, roundVars, sweepVars>>

\* GostAttack::new(&at_h): pack, then calculate_d with one draw c
New ==
  /\ at_pc = "new"
  /\ LET h_state == pack(at_h, 32, at_build)
     IN IF h_state.ok
        THEN \E c \in Draws :
               /\ ctx_h' = h_state.val
               /\ ctx_d' = calculate_d(h_state.val, c)
               /\ rng_draws' = rng_draws + 1
               /\ at_pc' = "constructed"
        ELSE /\ at_pc' = "panicked"
             /\ UNCHANGED <<ctx_h, ctx_d, rng_draws>>
  /\ UNCHANGED <<at_entry, at_build, at_h, fixed_points, fill_i, l_table, probed, ret>>
  /\ UNCHANGED <<packVars, schedVars, magmaVars, hashVars, keygenVars, operVars, roundVars, sweepVars>>

\* attacker.generate_collision() is called: the first find_fixed_points starts
GenerateCollision ==
  /\ at_pc = "constructed"
  /\ at_pc' = "fill"
  /\ fill_i' = 0
  /\ UNCHANGED <<at_entry, at_build, at_h, ctx_h, ctx_d, fixed_points,
                 l_table, probed, rng_draws, ret>>
  /\ UNCHANGED <<packVars, schedVars, magmaVars, hashVars, keygenVars, operVars, roundVars, sweepVars>>

\* find_fixed_points_round(i), first half: l = self.seek_forward(d1)
SeekForward ==
  /\ at_pc = "fill"
  /\ Cardinality(fixed_points) < FTarget
  /\ fill_i < MaxRound
  /\ LET d1 == Digits(fill_i % 65536, 8)
     IN \E s \in InsertOrders(ForwardInserts(ctx_h, d1)) :
          l_table' = InsertAll(EmptyTable, s)
  /\ probed' = [w \in 0..(SEEKERS - 1) |-> Ascending(Segment(w))]
  /\ at_pc' = "backward"
  /\ UNCHANGED <<at_entry, at_build, at_h, ctx_h, ctx_d, fixed_points, fill_i,
                 rng_draws, ret>>
  /\ UNCHANGED <<packVars, schedVars, magmaVars, hashVars, keygenVars, operVars, roundVars, sweepVars>>

\* find_fixed_points_round(i), second half: self.seek_backward(l, d2); i += 1
SeekBackward ==
  /\ at_pc = "backward"
  /\ LET d1 == Digits(fill_i % 65536, 8)
         d2 == xor(d1, ctx_d)
     IN fixed_points' = fixed_points \cup BackwardInserts(ctx_h, l_table, d2)
  /\ probed' = [w \in 0..(SEEKERS - 1) |-> Ascending(Segment(w))]
  /\ l_table' = EmptyTable
  /\ fill_i' = fill_i + 1
  /\ at_pc' = "fill"
  /\ UNCHANGED <<at_entry, at_build, at_h, ctx_h, ctx_d, rng_draws, ret>>
  /\ UNCHANGED <<packVars, schedVars, magmaVars, hashVars, keygenVars, operVars, roundVars, sweepVars>>

\* the fill loop has ended: get_collision, and the return of the unpacked pair
GetCollision ==
  /\ at_pc = "fill"
  /\ Cardinality(fixed_points) >= FTarget
  /\ \E ord \in IterOrders(fixed_points) :
       LET collision == get_collision(ctx_h, ord)
       IN IF collision # <<>>
          THEN /\ ret' = <<unpack(32, collision[1]), unpack(32, collision[2])>>
               /\ at_pc' = "returned"
          ELSE /\ ret' = ret
               /\ at_pc' = "retry"
  /\ UNCHANGED <<at_entry, at_build, at_h, ctx_h, ctx_d, fixed_points, fill_i,
                 l_table, probed, rng_draws>>
  /\ UNCHANGED <<packVars, schedVars, magmaVars, hashVars, keygenVars, operVars, roundVars, sweepVars>>

\* self.ctx.fixed_points.write().unwrap().clear(), and the next pass of the
\* loop of generate_collision starts find_fixed_points again
Clear ==
  /\ at_pc = "retry"
  /\ fixed_points' = {}
  /\ fill_i' = 0
  /\ at_pc' = "fill"
  /\ UNCHANGED <<at_entry, at_build, at_h, ctx_h, ctx_d, l_table, probed,
                 rng_draws, ret>>
  /\ UNCHANGED <<packVars, schedVars, magmaVars, hashVars, keygenVars, operVars, roundVars, sweepVars>>

AttackNext ==
  \/ ParseArgs
  \/ New
  \/ GenerateCollision
  \/ SeekForward
  \/ SeekBackward
  \/ GetCollision
  \/ Clear

SpecAttack == AttackInit /\ [][AttackNext]_vars

\* the driver has a next step: the guards of the disjuncts of AttackNext
Running ==
  \/ at_pc \in {"main", "new", "constructed", "backward", "retry"}
  \/ at_pc = "fill" /\ (Cardinality(fixed_points) >= FTarget \/ fill_i < MaxRound)

\* a fill loop that the model has stopped after MaxRound rounds
Capped ==
  at_pc = "fill" /\ Cardinality(fixed_points) < FTarget /\ fill_i >= MaxRound

\* a step of the driver; every disjunct of AttackNext moves at_pc, so within
\* [][AttackNext]_vars the steps of Advance are the steps of AttackNext
Advance ==
  /\ Running
  /\ at_pc' \in {"new", "constructed", "fill", "backward", "retry",
                 "returned", "panicked"}
  /\ at_pc' # at_pc

\* the driver is one thread and takes its next step whenever it has one
FairSpecAttack == SpecAttack /\ WF_at_pc(Advance)

\* ---------------------------------------------------------------------------
\* One find_fixed_points_round with its seeker threads and locks
\* ---------------------------------------------------------------------------

\* RwLock: write() is granted when no guard is out, read() when no write
\* guard is out
CanWrite(lock) == lock.writer = -1 /\ lock.readers = {}

CanRead(lock) == lock.writer = -1

WriteLock(lock, w) == [lock EXCEPT !.writer = w]

ReadLock(lock, w) == [lock EXCEPT !.readers = @ \cup {w}]

\* a write guard that is never dropped
WriteUnlock_leak(lock) == lock

\* the drop of the write guard at the end of the insert statement
WriteUnlock(lock) == [lock EXCEPT !.writer = -1]

\* the drop of read_lock at the end of the block
ReadUnlock(lock, w) == [lock EXCEPT !.readers = @ \ {w}]

\* an insert that keeps the value of a key the map already holds
HashMapInsert_keep(table, k, v) ==
  IF k \in DOMAIN table THEN table
  ELSE [b \in DOMAIN table \cup {k} |-> IF b = k THEN v ELSE table[b]]

\* HashMap::insert(k, v)
HashMapInsert(table, k, v) ==
  [b \in DOMAIN table \cup {k} |-> IF b = k THEN v ELSE table[b]]

\* the first half-key at or after from in the range of seeker w for which
\* check_equasion holds, -1 when the range has none
NextMatch(w, from, d, first_half) ==
  LET hits == {n \in Segment(w) :
                 /\ n >= from
                 /\ check_equasion(operator_on_base_vectors, HalfKeyAt(n), d, first_half)}
  IN IF hits = {} THEN -1 ELSE CHOOSE n \in hits : \A o \in hits : n <= o

\* the loop of seeker w from half-key from on, up to its next request of a
\* lock or to the end of its range
RunTo(w, from, d, first_half) ==
  LET n == NextMatch(w, from, d, first_half)
  IN IF n = -1 THEN [pc |-> "finished", n |-> 0]
     ELSE [pc |-> IF first_half THEN "want_write_l" ELSE "want_read_l", n |-> n]

\* *self.ctx.h of the attackers the sweeps are run for
SweepStates == {pack(h, 32, "release").val : h \in HInputs}

SweepInit ==
  /\ sw_pc = "spawn_forward"
  /\ sw_i = 0
  /\ sw_h \in SweepStates
  /\ \E i \in 0..(MaxRound - 1) : sw_d1 = Digits(i, 8)
  /\ \E c \in Draws : sw_d2 = xor(sw_d1, calculate_d(sw_h, c))
  /\ seekers = NoSeekers
  /\ sw_l = EmptyTable
  /\ l_lock = Unlocked
  /\ sw_fixed = {}
  /\ fixed_lock = Unlocked
  /\ sw_writes = <<>>
  /\ PackIdle /\ SchedIdle /\ MagmaIdle /\ HashIdle /\ AttackIdle /\ KeyGenIdle /\ OperIdle /\ RoundIdle

\* seek_forward: thread::spawn of seeker sw_i, which runs up to its first
\* request of the write lock of l
SpawnForward ==
  /\ sw_pc = "spawn_forward"
  /\ seekers' = [seekers EXCEPT ![sw_i] = RunTo(sw_i, 0, sw_d1, TRUE)]
  /\ IF sw_i + 1 < SEEKERS
       THEN sw_i' = sw_i + 1 /\ sw_pc' = sw_pc
       ELSE sw_i' = 0 /\ sw_pc' = "join_forward"
  /\ UNCHANGED <<sw_h, sw_d1, sw_d2, sw_l, l_lock, sw_fixed, fixed_lock, sw_writes>>
  /\ UNCHANGED <<packVars, schedVars, magmaVars, hashVars, attackVars, keygenVars, operVars, roundVars>>

\* l_copy.write().expect("Cannot acquire the lock")
WriteLockL(w) ==
  /\ seekers[w].pc = "want_write_l"
  /\ CanWrite(l_lock)
  /\ l_lock' = WriteLock(l_lock, w)
  /\ seekers' = [seekers EXCEPT ![w].pc = "has_write_l"]
  /\ UNCHANGED <<sw_pc, sw_i, sw_h, sw_d1, sw_d2, sw_l, sw_fixed, fixed_lock, sw_writes>>
  /\ UNCHANGED <<packVars, schedVars, magmaVars, hashVars, attackVars, keygenVars, operVars, roundVars>>

\* .insert(block, half_key), the drop of the guard, and the seeker's loop up
\* to its next request
InsertL(w) ==
  /\ seekers[w].pc = "has_write_l"
  /\ LET half_key == HalfKeyAt(seekers[w].n)
         block    == ForwardBlock(sw_h, half_key)
     IN /\ sw_l' = HashMapInsert(sw_l, block, half_key)
        /\ sw_writes' = Append(sw_writes, [w |-> w, n |-> seekers[w].n,
                                          block |-> block, half_key |-> half_key])
  /\ l_lock' = WriteUnlock(l_lock)
  /\ seekers' = [seekers EXCEPT ![w] = RunTo(w, seekers[w].n + 1, sw_d1, TRUE)]
  /\ UNCHANGED <<sw_pc, sw_i, sw_h, sw_d1, sw_d2, sw_fixed, fixed_lock>>
  /\ UNCHANGED <<packVars, schedVars, magmaVars, hashVars, attackVars, keygenVars, operVars, roundVars>>

\* seek_forward: hnd.join().unwrap() of seeker sw_i; after the last one
\* seek_forward returns l and seek_backward starts
JoinForward ==
  /\ sw_pc = "join_forward"
  /\ seekers[sw_i].pc = "finished"
  /\ IF sw_i + 1 < SEEKERS
       THEN sw_i' = sw_i + 1 /\ sw_pc' = sw_pc
       ELSE sw_i' = 0 /\ sw_pc' = "spawn_backward"
  /\ UNCHANGED <<sw_h, sw_d1, sw_d2, seekers, sw_l, l_lock, sw_fixed, fixed_lock, sw_writes>>
  /\ UNCHANGED <<packVars, schedVars, magmaVars, hashVars, attackVars, keygenVars, operVars, roundVars>>

\* seek_backward: thread::spawn of seeker sw_i, which runs up to its first
\* request of the read lock of l
SpawnBackward ==
  /\ sw_pc = "spawn_backward"
  /\ seekers' = [seekers EXCEPT ![sw_i] = RunTo(sw_i, 0, sw_d2, FALSE)]
  /\ IF sw_i + 1 < SEEKERS
       THEN sw_i' = sw_i + 1 /\ sw_pc' = sw_pc
       ELSE sw_i' = 0 /\ sw_pc' = "join_backward"
  /\ UNCHANGED <<sw_h, sw_d1, sw_d2, sw_l, l_lock, sw_fixed, fixed_lock, sw_writes>>
  /\ UNCHANGED <<packVars, schedVars, magmaVars, hashVars, attackVars, keygenVars, operVars, roundVars>>

\* let read_lock = l_copy.read().expect("Cannot acquire read lock")
ReadLockL(w) ==
  /\ seekers[w].pc = "want_read_l"
  /\ CanRead(l_lock)
  /\ l_lock' = ReadLock(l_lock, w)
  /\ seekers' = [seekers EXCEPT ![w].pc = "has_read_l"]
  /\ UNCHANGED <<sw_pc, sw_i, sw_h, sw_d1, sw_d2, sw_l, sw_fixed, fixed_lock, sw_writes>>
  /\ UNCHANGED <<packVars, schedVars, magmaVars, hashVars, attackVars, keygenVars, operVars, roundVars>>

\* read_lock.contains_key(&block): on a hit the seeker goes on to request
\* the write lock of fixed_points, still holding read_lock; on a miss
\* read_lock is dropped and the seeker's loop goes on
Lookup(w) ==
  /\ seekers[w].pc = "has_read_l"
  /\ IF BackwardBlock(sw_h, HalfKeyAt(seekers[w].n)) \in DOMAIN sw_l
       THEN /\ seekers' = [seekers EXCEPT ![w].pc = "want_write_f"]
            /\ l_lock' = l_lock
       ELSE /\ seekers' = [seekers EXCEPT
                             ![w] = RunTo(w, seekers[w].n + 1, sw_d2, FALSE)]
            /\ l_lock' = ReadUnlock(l_lock, w)
  /\ UNCHANGED <<sw_pc, sw_i, sw_h, sw_d1, sw_d2, sw_l, sw_fixed, fixed_lock, sw_writes>>
  /\ UNCHANGED <<packVars, schedVars, magmaVars, hashVars, attackVars, keygenVars, operVars, roundVars>>

\* fixed_points.write().expect("Cannot acquire write lock")
WriteLockF(w) ==
  /\ seekers[w].pc = "want_write_f"
  /\ CanWrite(fixed_lock)
  /\ fixed_lock' = WriteLock(fixed_lock, w)
  /\ seekers' = [seekers EXCEPT ![w].pc = "has_write_f"]
  /\ UNCHANGED <<sw_pc, sw_i, sw_h, sw_d1, sw_d2, sw_l, l_lock, sw_fixed, sw_writes>>
  /\ UNCHANGED <<packVars, schedVars, magmaVars, hashVars, attackVars, keygenVars, operVars, roundVars>>

\* .insert(Self::convert_to_message(*h, key)), the drop of both guards, and
\* the seeker's loop up to its next request
InsertF(w) ==
  /\ seekers[w].pc = "has_write_f"
  /\ LET half_key       == HalfKeyAt(seekers[w].n)
         first_key_half == sw_l[BackwardBlock(sw_h, half_key)]
     IN sw_fixed' = sw_fixed \cup {convert_to_message(sw_h, first_key_half \o half_key)}
  /\ fixed_lock' = WriteUnlock(fixed_lock)
  /\ l_lock' = ReadUnlock(l_lock, w)
  /\ seekers' = [seekers EXCEPT ![w] = RunTo(w, seekers[w].n + 1, sw_d2, FALSE)]
  /\ UNCHANGED <<sw_pc, sw_i, sw_h, sw_d1, sw_d2, sw_l, sw_writes>>
  /\ UNCHANGED <<packVars, schedVars, magmaVars, hashVars, attackVars, keygenVars, operVars, roundVars>>

\* seek_backward: hnd.join().unwrap() of seeker sw_i; after the last one
\* seek_backward returns
JoinBackward ==
  /\ sw_pc = "join_backward"
  /\ seekers[sw_i].pc = "finished"
  /\ IF sw_i + 1 < SEEKERS
       THEN sw_i' = sw_i + 1 /\ sw_pc' = sw_pc
       ELSE sw_i' = 0 /\ sw_pc' = "done"
  /\ UNCHANGED <<sw_h, sw_d1, sw_d2, seekers, sw_l, l_lock, sw_fixed, fixed_lock, sw_writes>>
  /\ UNCHANGED <<packVars, schedVars, magmaVars, hashVars, attackVars, keygenVars, operVars, roundVars>>

SweepNext ==
  \/ SpawnForward
  \/ \E w \in 0..(SEEKERS - 1) : WriteLockL(w)
  \/ \E w \in 0..(SEEKERS - 1) : InsertL(w)
  \/ JoinForward
  \/ SpawnBackward
  \/ \E w \in 0..(SEEKERS - 1) : ReadLockL(w)
  \/ \E w \in 0..(SEEKERS - 1) : Lookup(w)
  \/ \E w \in 0..(SEEKERS - 1) : WriteLockF(w)
  \/ \E w \in 0..(SEEKERS - 1) : InsertF(w)
  \/ JoinBackward

SpecSweep == SweepInit /\ [][SweepNext]_vars

\* the driver is not blocked: it is spawning, or the seeker it joins has
\* finished
DriverRunnable ==
  \/ sw_pc \in {"spawn_forward", "spawn_backward"}
  \/ sw_pc \in {"join_forward", "join_backward"} /\ seekers[sw_i].pc = "finished"

\* seeker w is not blocked: it holds what it needs, or the lock it requests
\* can be granted
SeekerRunnable(w) ==
  \/ seekers[w].pc \in {"has_write_l", "has_read_l", "has_write_f"}
  \/ seekers[w].pc = "want_write_l" /\ CanWrite(l_lock)
  \/ seekers[w].pc = "want_read_l" /\ CanRead(l_lock)
  \/ seekers[w].pc = "want_write_f" /\ CanWrite(fixed_lock)

\* a step of the driver; every action of the driver moves sw_pc or sw_i
DriverStep ==
  /\ DriverRunnable
  /\ sw_pc' \in {"spawn_forward", "join_forward", "spawn_backward",
                 "join_backward", "done"}
  /\ sw_i' \in 0..(SEEKERS - 1)
  /\ <<sw_pc', sw_i'>> # <<sw_pc, sw_i>>

\* a step of seeker w; every action of a seeker moves its entry of seekers
SeekerStep(w) ==
  /\ SeekerRunnable(w)
  /\ \E pc \in {"want_write_l", "has_write_l", "want_read_l", "has_read_l",
                 "want_write_f", "has_write_f", "finished"},
          n \in 0..U32_MAX :
       /\ [pc |-> pc, n |-> n] # seekers[w]
       /\ seekers' = [seekers EXCEPT ![w] = [pc |-> pc, n |-> n]]

\* the driver and the seekers are OS threads: each runs whenever it is not
\* blocked
FairSpecSweep ==
  /\ SpecSweep
  /\ WF_<<sw_pc, sw_i>>(DriverStep)
  /\ \A w \in 0..(SEEKERS - 1) : WF_seekers(SeekerStep(w))

\* ===========================================================================
\* Properties
\* ===========================================================================

\* C3: once a block has been encrypted and the result decrypted on the same
\* Magma instance, under the same key, the decrypted block is the plaintext.
C3_MagmaInvertible == mg_pc = "decrypted" => decrypted = mg_block

C3_Witness ==
  /\ mg_pc = "decrypted"
  /\ key = TestKey /\ mg_block = TestBlock
  /\ encrypted # mg_block
  /\ decrypted = mg_block

\* the subkey the claim names for round r (0-based) of the forward schedule
ClaimedSubkey(r) == IF r < 24 THEN r % 8 ELSE 7 - (r % 8)

\* C4: the forward scheduler yields 32 round keys, round r being sk[r mod 8]
\* for r < 24 and sk[7 - (r mod 8)] for 24 <= r < 32, and None from then on;
\* the reversed scheduler yields the same 32 round keys in the opposite order.
C4_KeySchedule ==
  \A c \in 1..Len(yielded) :
    IF c > 32 THEN yielded[c] = <<>>
    ELSE LET r == IF sched_rev THEN 32 - c ELSE c - 1
             j == ClaimedSubkey(r)
         IN yielded[c] = SubSeq(magma_key, 4 * j + 1, 4 * j + 4)

C4_Witness ==
  /\ magma_key = DistinctKey
  /\ sched_rev
  /\ Len(yielded) > 32
  /\ yielded[1] = SubSeq(magma_key, 1, 4)
  /\ yielded[9] = SubSeq(magma_key, 29, 32)

\* C5: pack never fails on a vector of 4, 8, 16 or 32 symbols, it puts symbol
\* i in bits 2i..2i+2 of its result, and unpack gives the vector back.
C5_PackRoundTrip ==
  /\ pk_pc # "panicked"
  /\ pk_pc \in {"packed", "done"} => pk_out.val = pk_in
  /\ pk_pc = "done" => pk_back = pk_in

\* C6: P moves the symbol at position phi(i) - 1 to position i - 1 for every
\* i in 1..32, so that no symbol of the input is lost.
C6_PAllPositions ==
  hs_pc = "p" => \A i \in 1..32 : hs_out[i] = hs_s[phi(i)]

\* C7: psy_pow(psy_pow(s, b), a) = psy_pow(s, a + b) for exponents of either
\* sign; with a = -1, b = 1 and with a = 1, b = -1 this is psy_rev(psy(s)) = s
\* and psy(psy_rev(s)) = s.
C7_PsyPowAdditive ==
  hs_pc = "pow" =>
    /\ hs_out = hs_sum
    /\ hs_a + hs_b = 0 => hs_out = hs_s

C7_Witness ==
  /\ hs_pc = "pow"
  /\ hs_s = TestH
  /\ hs_a = -1 /\ hs_b = 1
  /\ hs_out = hs_s

C2_EventuallyReturns ==
  (at_pc = "constructed" /\ FirstQuarterSymmetric(at_h))
    ~> (at_pc = "returned" \/ Capped)

\* C8: for an h whose symbols 0..4 differ from its symbols 4..8 no attacker
\* is constructed, no d is derived and no sweep is started, from the binary
\* or from a direct call of GostAttack::new.
C8_AsymmetricRejected ==
  ~FirstQuarterSymmetric(at_h) =>
    /\ at_pc \in {"main", "new", "panicked"}
    /\ ctx_d = <<>>
    /\ rng_draws = 0

\* C9: the segments of the 16 seekers of a sweep are contiguous and disjoint
\* and together hold every half-key of 0..u32::MAX exactly once, each in
\* ascending order, u32::MAX being in the last one.
C9_SegmentsCoverRange ==
  probed # NoProbes =>
    /\ \A n \in 0..U32_MAX :
         Cardinality({wc \in (0..(SEEKERS - 1)) \X (1..(U32_MAX + 1)) :
                        wc[2] <= Len(probed[wc[1]]) /\ probed[wc[1]][wc[2]] = n}) = 1
    /\ \A w \in 0..(SEEKERS - 1) : \A c \in 1..(Len(probed[w]) - 1) :
         probed[w][c + 1] = probed[w][c] + 1
    /\ \A w \in 0..(SEEKERS - 2) :
         (probed[w] # <<>> /\ probed[w + 1] # <<>>)
           => probed[w + 1][1] = probed[w][Len(probed[w])] + 1
    /\ probed[SEEKERS - 1] # <<>>
    /\ probed[SEEKERS - 1][Len(probed[SEEKERS - 1])] = U32_MAX

\* C10: a pass that found no collision is followed by a pass that runs with
\* a freshly drawn c: the step that clears fixed_points and starts the next
\* pass takes a new value from the random source and stores the d computed
\* from it.
C10_RetryDrawsFresh ==
  [][(at_pc = "retry" /\ at_pc' = "fill")
       => (/\ rng_draws' = rng_draws + 1
           /\ \E c \in Draws : ctx_d' = calculate_d(ctx_h, c))]_vars

\* the four 16-bit words, least significant first, of the 64-bit integer
\* with symbol i of x in bits 2i..2i+2
Words16(x) == [w \in 1..4 |-> Num(SubSeq(x, 8 * w - 7, 8 * w))]

\* what the last step of key_gen XORed into a(cur_h)
StepConstant == xor(cur_h, a(prev_h))

\* 0xCF03C33C3333CCCC and 0xCF03C33CCCCCCCCC, in 16-bit words
PackedC == <<52428, 13107, 49980, 52995>>
ClaimedC == <<52428, 52428, 49980, 52995>>

\* C11 (amended): key_gen XORs a(cur_h) with zero in the steps that give k1
\* and k3 and with the constant c in the step that gives k2, and c packed as
\* a 64-bit integer (symbol i in bits 2i..2i+2) is 0xCF03C33C3333CCCC.
C11_KeyGenConstant ==
  /\ kg_pc \in {"k1", "k3"} => StepConstant = Zeros(32)
  /\ kg_pc = "k2" => Words16(StepConstant) = PackedC

C11_Witness ==
  /\ kg_pc = "k2" /\ kg_h = TestH /\ kg_m = TestM
  /\ Len(kg_keys) = 3

\* C11 as stated: the same, with the packed constant 0xCF03C33CCCCCCCCC.
C11_KeyGenConstantClaimed ==
  /\ kg_pc \in {"k1", "k3"} => StepConstant = Zeros(32)
  /\ kg_pc = "k2" => Words16(StepConstant) = ClaimedC

\* C12: for every key k, apply_operator on the table of get_operator_values
\* gives the 16-bit value that _apply_operator(k) gives.
C12_OperatorTable == op_pc = "applied" => op_table = op_direct

C12_Witness ==
  /\ op_pc = "applied" /\ op_k = TestH
  /\ op_table # Zeros(8) /\ Len(op_a) = 64

\* 8-bit wrapping addition of the packed values of two half-blocks
WrapAdd8(x, y) == le_to_half_blk((half_blk_le(x) + half_blk_le(y)) % 256)

\* rotation of the packed 8-bit half-block left by 3 bits
Rotl3(x) == le_to_half_blk(RotlU8(half_blk_le(x), 3))

\* one Feistel round on <<left, right>>: the round function, then the swap
FeistelRound(lr, rk) ==
  <<lr[2], xor(lr[1], Rotl3(s_box(WrapAdd8(lr[2], rk))))>>

\* four Feistel rounds under the bytes of half_key in ascending order
FourFeistelRounds(lr, half_key) ==
  FeistelRound(FeistelRound(FeistelRound(FeistelRound(lr,
    KeyByte(half_key, 0)), KeyByte(half_key, 1)), KeyByte(half_key, 2)),
    KeyByte(half_key, 3))

\* C13: a call of Magma::round leaves left' = right and
\* right' = left XOR rotl3(SBOX(right [+] rk)), and the four calls a seeker
\* makes with no swap in between compute four Feistel rounds.
C13_RoundSwaps ==
  /\ rd_n = 1 =>
        <<rd_left, rd_right>> =
          FeistelRound(<<rd_left0, rd_right0>>, KeyByte(rd_half_key, 0))
  /\ rd_n = 4 =>
        <<rd_left, rd_right>> = FourFeistelRounds(<<rd_left0, rd_right0>>, rd_half_key)

\* seek_forward has just returned l
ForwardReturned == sw_pc = "spawn_backward" /\ sw_i = 0

\* the probed half-keys k1 with L(k1) = d1
ForwardHits ==
  {n \in UNION {Segment(w) : w \in 0..(SEEKERS - 1)} :
     check_equasion(operator_on_base_vectors, HalfKeyAt(n), sw_d1, TRUE)}

\* C14: under every interleaving of the forward seekers, when seek_forward
\* returns every seeker has finished and been joined, no guard is out, and l
\* is the union of the seekers' insertions with last-writer-wins: every
\* probed k1 with L(k1) = d1 has an entry under its block, every stored value
\* is such a k1 with that block, and every insertion took place, whole, in
\* the order of the write lock.
C14_ForwardTable ==
  ForwardReturned =>
    /\ \A w \in 0..(SEEKERS - 1) : seekers[w].pc = "finished"
    /\ l_lock = Unlocked
    /\ \A n \in ForwardHits : ForwardBlock(sw_h, HalfKeyAt(n)) \in DOMAIN sw_l
    /\ \A b \in DOMAIN sw_l : \E n \in ForwardHits :
         sw_l[b] = HalfKeyAt(n) /\ ForwardBlock(sw_h, HalfKeyAt(n)) = b
    /\ {sw_writes[c] : c \in DOMAIN sw_writes} = ForwardInserts(sw_h, sw_d1)
    /\ Len(sw_writes) = Cardinality(ForwardInserts(sw_h, sw_d1))
    /\ sw_l = InsertAll(EmptyTable, sw_writes)
    /\ \A c \in DOMAIN sw_writes :
         (\A c2 \in DOMAIN sw_writes : c2 > c => sw_writes[c2].block # sw_writes[c].block)
           => sw_l[sw_writes[c].block] = sw_writes[c].half_key

\* two seekers have inserted under the same block, and the later one's
\* half-key is the one stored
C14_Witness ==
  /\ ForwardReturned
  /\ \E c1, c2 \in DOMAIN sw_writes :
       /\ c1 < c2
       /\ sw_writes[c1].w # sw_writes[c2].w
       /\ sw_writes[c1].block = sw_writes[c2].block
       /\ sw_writes[c1].half_key # sw_writes[c2].half_key
       /\ sw_l[sw_writes[c2].block] = sw_writes[c2].half_key

\* C15: in every reachable state of an attack run fixed_points holds at
\* most the target number of messages (2^24 in the code, FTarget here).
C15_FixedPointsBounded == Cardinality(fixed_points) <= FTarget

\* the key of a message m: P(m XOR h), with its halves k1 and k2
KeyOf(m) == p(xor(m, sw_h))

\* C16: every message m in fixed_points is a fixed point for h and d: with
\* key = P(m XOR h), k1 its low and k2 its high 32 bits, L(k1) = d1 and
\* L(k2 << 32) = d2 = d1 XOR d for the round's d1 (hence L(key) = d), k1 is
\* stored in the round's l, and the four forward round calls under k1 give
\* the block that the four backward round calls under k2 give.
C16_FixedPoints ==
  \A m \in sw_fixed :
    LET k1 == SubSeq(KeyOf(m), 1, 16)
        k2 == SubSeq(KeyOf(m), 17, 32)
    IN /\ check_equasion(operator_on_base_vectors, k1, sw_d1, TRUE)
       /\ check_equasion(operator_on_base_vectors, k2, sw_d2, FALSE)
       /\ apply_operator(operator_on_base_vectors, KeyOf(m)) = xor(sw_d1, sw_d2)
       /\ \E b \in DOMAIN sw_l : sw_l[b] = k1
       /\ ForwardBlock(sw_h, k1) = BackwardBlock(sw_h, k2)

\* C17: every sweep runs to completion without deadlock: as long as the
\* round is not over some thread is not blocked, and under fair scheduling
\* every seeker finishes and both joins of the driver return.
C17_SweepsComplete ==
  /\ [](sw_pc # "done" => (DriverRunnable \/ \E w \in 0..(SEEKERS - 1) : SeekerRunnable(w)))
  /\ <>(sw_pc = "done" /\ \A w \in 0..(SEEKERS - 1) : seekers[w].pc = "finished")

\* a backward seeker holds the write lock of fixed_points while another one,
\* holding the read lock of l as well, waits for it
C17_Witness ==
  \E w1, w2 \in 0..(SEEKERS - 1) :
    /\ w1 # w2
    /\ seekers[w1].pc = "has_write_f"
    /\ seekers[w2].pc = "want_write_f"
    /\ {w1, w2} \subseteq l_lock.readers
    /\ fixed_lock.writer = w1

=============================================================================
